---------------------------- MODULE Spec2Model ----------------------------
(***************************************************************************)
(* Conjugate-prior cluster models of hiddenswitch/distributions:           *)
(*   - normal_inverse_chi_sq (scalar-real)  models/nich.hpp                 *)
(*   - dirichlet_discrete    (categorical)  models/dd.hpp                   *)
(*                                                                         *)
(* Floats are modelled in exact arithmetic as normalised rationals <<n,d>> *)
(* with d > 0; the IEEE value NaN (the result of 0/0) is <<0,0>> and is    *)
(* absorbing.  Transcendental collaborators (fast_log, fast_lgamma) are    *)
(* kept as the argument they are applied to.                               *)
(*                                                                         *)
(* `harness` says which class of the library the driver exercises:         *)
(*   "mixture"  normal_inverse_chi_sq::Mixture                             *)
(*   "group"    normal_inverse_chi_sq::Group, a pool of groups             *)
(*   "dgroup"   dirichlet_discrete::Group, two groups                      *)
(*   "grid"     dirichlet_discrete score_data / score_data_grid            *)
(*   "dd"       dirichlet_discrete::VectorizedScorer over its groups       *)
(***************************************************************************)
EXTENDS Integers, Sequences, FiniteSets, TLC

\* ------------------------------------------------------------------ bounds
MaxGroups == 3
MaxValues == 3
PoolMaxTotal == 4
MaxStray == 1

\* values offered to the scalar-real Mixture, and to the Group pool
MixValues == {1, 3}

PoolValues == {1, 2, 3}

\* the groups of the Group pool
Pool == 1 .. 2

\* categorical model: the most groups, and the most observations the
\* groups hold together
MaxDGroups == 2
MaxDTotal == 3

\* the longest grid of hyperparameter sets handed to score_data_grid
MaxGrid == 2

\* the categorical VectorizedScorer: the most rows, and the most calls its
\* driver makes
MaxRows == 3

MaxCalls == 5

\* ------------------------------------------------------- exact arithmetic
Abs(n) == IF n < 0 THEN -n ELSE n

RECURSIVE Gcd(_, _)
Gcd(a, b) == IF b = 0 THEN a ELSE Gcd(b, a % b)

NaN == <<0, 0>>

IsNaN(a) == a[2] = 0

\* the normalised rational n/d; a zero divisor gives NaN (reachable code
\* only ever divides by zero as 0/0)
Norm(n, d) ==
    IF d = 0 THEN NaN
    ELSE LET s == IF d < 0 THEN -1 ELSE 1
             g == Gcd(Abs(n), Abs(d))
         IN  <<(s * n) \div g, (s * d) \div g>>

R(n) == <<n, 1>>

RAdd(a, b) ==
    IF IsNaN(a) \/ IsNaN(b) THEN NaN
    ELSE Norm(a[1] * b[2] + b[1] * a[2], a[2] * b[2])

RSub(a, b) ==
    IF IsNaN(a) \/ IsNaN(b) THEN NaN
    ELSE Norm(a[1] * b[2] - b[1] * a[2], a[2] * b[2])

RMul(a, b) ==
    IF IsNaN(a) \/ IsNaN(b) THEN NaN
    ELSE Norm(a[1] * b[1], a[2] * b[2])

RDiv(a, b) ==
    IF IsNaN(a) \/ IsNaN(b) THEN NaN
    ELSE Norm(a[1] * b[2], a[2] * b[1])

RNeg(a) == RSub(R(0), a)

RPos(a) == ~IsNaN(a) /\ a[1] > 0

RNonNeg(a) == ~IsNaN(a) /\ a[1] >= 0

sqr(a) == RMul(a, a)

\* --------------------------------------------------------------- variables
VARIABLES
    harness,        \* which class the driver exercises
    status,         \* "new" | "ready" | "aborted" (a fatal assertion fired)
    last,           \* the last completed or aborted call: [op, id]
    shared,         \* scalar-real Shared {mu, kappa, sigmasq, nu}
    groups,         \* Mixture: slave_.groups(); Group pool: the groups
    assigned,       \* per group, the values currently assigned (value -> n)
    stray,          \* removals of a value that was not assigned, so far
    dirty,          \* the groups such a removal reached
    scorer,         \* scalar-real VectorizedScorer: the parallel arrays
                    \* score, log_coeff, precision, mean, temp
    debug_level,    \* DIST_DEBUG_LEVEL of the build
    oob,            \* an array slot outside 0 .. max_dim-1 was accessed
    dgroups,        \* categorical groups: slave.groups()
    cached_data_scorer_,  \* categorical VectorizedScorer's CachedDataScorer
    grid_in,        \* the shareds of the last score_data_grid call
    scores_out,     \* the scores_out buffer of that call
    dscorer,        \* categorical VectorizedScorer: alpha_sum_, scores_,
                    \* scores_shift_
    fresh,          \* per row: the shared it was last refreshed with, and
                    \* the entries that changed in the group since
    scores_accum,   \* the caller's accumulator buffer of score_value
    dassigned       \* per categorical group, the observations currently
                    \* assigned (category -> n)

nichVars == <<shared, groups, assigned, stray, dirty, scorer>>

ddVars == <<oob, dgroups, cached_data_scorer_, grid_in, scores_out,
            dscorer, fresh>>

vars ==
    <<harness, status, last, debug_level, nichVars, ddVars, scores_accum,
      dassigned>>

\* ------------------------------------------ normal_inverse_chi_sq::Shared
SharedEXAMPLE == [mu |-> R(0), kappa |-> R(1), sigmasq |-> R(1), nu |-> R(1)]

Shareds == {SharedEXAMPLE,
            [mu |-> R(1), kappa |-> R(2), sigmasq |-> R(1), nu |-> R(3)]}

\* ------------------------------------------- normal_inverse_chi_sq::Group
GroupInit == [count |-> 0, mean |-> R(0), count_times_variance |-> R(0)]

\* slip: the squared deviation is taken from the mean before the update
GroupAddValueOldMean(g, value) ==
    LET c == g.count + 1
        delta == RSub(R(value), g.mean)
    IN  [count |-> c,
         mean |-> RAdd(g.mean, RDiv(delta, R(c))),
         count_times_variance |->
             RAdd(g.count_times_variance, RMul(delta, delta))]

GroupAddValue(g, value) ==
    LET c == g.count + 1
        delta == RSub(R(value), g.mean)
        m == RAdd(g.mean, RDiv(delta, R(c)))
    IN  [count |-> c,
         mean |-> m,
         count_times_variance |->
             RAdd(g.count_times_variance, RMul(delta, RSub(R(value), m)))]

\* the body of remove_value past its DIST_ASSERT(count > 0)
GroupRemoveValue(g, value) ==
    LET total == RMul(g.mean, R(g.count))
        delta == RSub(R(value), g.mean)
        c == g.count - 1
        m == IF c = 0 THEN R(0) ELSE RDiv(RSub(total, R(value)), R(c))
    IN  [count |-> c,
         mean |-> m,
         count_times_variance |->
             IF c <= 1 THEN R(0)
             ELSE RSub(g.count_times_variance,
                       RMul(delta, RSub(R(value), m)))]

GroupMerge(g, source) ==
    LET total_count == g.count + source.count
        delta == RSub(source.mean, g.mean)
        source_part == RDiv(R(source.count), R(total_count))
        cross_part == RMul(R(g.count), source_part)
    IN  [count |-> total_count,
         mean |-> RAdd(g.mean, RMul(source_part, delta)),
         count_times_variance |->
             RAdd(g.count_times_variance,
                  RAdd(source.count_times_variance,
                       RMul(cross_part, sqr(delta))))]

\* ---------------------------------------------------- Shared::plus_group
plus_group(sh, group) ==
    LET mu_1 == RSub(sh.mu, group.mean)
        cnt == R(group.count)
        post_kappa == RAdd(sh.kappa, cnt)
        post_nu == RAdd(sh.nu, cnt)
    IN  [kappa |-> post_kappa,
         mu |-> RDiv(RAdd(RMul(sh.kappa, sh.mu), RMul(group.mean, cnt)),
                     post_kappa),
         nu |-> post_nu,
         sigmasq |->
             RMul(RDiv(R(1), post_nu),
                  RAdd(RAdd(RMul(sh.nu, sh.sigmasq),
                            group.count_times_variance),
                       RDiv(RMul(RMul(RMul(cnt, sh.kappa), mu_1), mu_1),
                            post_kappa)))]

\* ------------------------------------------ normal_inverse_chi_sq::Scorer
\* score = fast_lgamma_nu(a) + 0.5 * fast_log(b / pi) is kept as <<a, b>>
ScorerInit(sh, group) ==
    LET post == plus_group(sh, group)
        lambda == RDiv(post.kappa,
                       RMul(RAdd(post.kappa, R(1)), post.sigmasq))
    IN  [score |-> <<post.nu, RDiv(lambda, post.nu)>>,
         log_coeff |-> RSub(RMul(<<-1, 2>>, post.nu), <<1, 2>>),
         precision |-> RDiv(lambda, post.nu),
         mean |-> post.mu]

\* --------------------------------------------- VectorFloat (vector.hpp)
\* resize(size, fill): keeps the leading elements, fills the new ones
Resize(seq, size, fill) ==
    [j \in 1 .. size |-> IF j <= Len(seq) THEN seq[j] ELSE fill]

PackedAdd(seq, fill) == Append(seq, fill)

\* packed_remove(pos): the last element moves into the gap, then shrink
PackedRemove(seq, pos) ==
    [j \in 1 .. (Len(seq) - 1) |-> IF j = pos THEN seq[Len(seq)] ELSE seq[j]]

\* ---------------------------- normal_inverse_chi_sq::VectorizedScorer
\* indices are 1-based here: groupid g of the code is g + 1
Zero == R(0)

ZeroScore == <<R(0), R(0)>>

EmptyScorer ==
    [score |-> <<>>, log_coeff |-> <<>>, precision |-> <<>>,
     mean |-> <<>>, temp |-> <<>>]

VSResize(s, size) ==
    [score |-> Resize(s.score, size, ZeroScore),
     log_coeff |-> Resize(s.log_coeff, size, Zero),
     precision |-> Resize(s.precision, size, Zero),
     mean |-> Resize(s.mean, size, Zero),
     temp |-> Resize(s.temp, size, Zero)]

VSAddGroup(s) ==
    [score |-> PackedAdd(s.score, ZeroScore),
     log_coeff |-> PackedAdd(s.log_coeff, Zero),
     precision |-> PackedAdd(s.precision, Zero),
     mean |-> PackedAdd(s.mean, Zero),
     temp |-> PackedAdd(s.temp, Zero)]

\* slip: mean.packed_remove(groupid) is forgotten
VSRemoveGroupForgetsMean(s, groupid) ==
    [score |-> PackedRemove(s.score, groupid),
     log_coeff |-> PackedRemove(s.log_coeff, groupid),
     precision |-> PackedRemove(s.precision, groupid),
     mean |-> s.mean,
     temp |-> PackedRemove(s.temp, groupid)]

\* slip: the row is erased in place (the rows behind it shift down) instead
\* of being overwritten by the last row
VSRemoveGroupShifts(s, groupid) ==
    LET Erase(seq) ==
            [j \in 1 .. (Len(seq) - 1) |->
                IF j < groupid THEN seq[j] ELSE seq[j + 1]]
    IN  [score |-> Erase(s.score),
         log_coeff |-> Erase(s.log_coeff),
         precision |-> Erase(s.precision),
         mean |-> Erase(s.mean),
         temp |-> Erase(s.temp)]

VSRemoveGroup(s, groupid) ==
    [score |-> PackedRemove(s.score, groupid),
     log_coeff |-> PackedRemove(s.log_coeff, groupid),
     precision |-> PackedRemove(s.precision, groupid),
     mean |-> PackedRemove(s.mean, groupid),
     temp |-> PackedRemove(s.temp, groupid)]

\* slip: the fresh parameters are written to every row
VSUpdateGroupAllRows(s, sh, groupid, group) ==
    LET base == ScorerInit(sh, group)
    IN  [score |-> [k \in 1 .. Len(s.score) |-> base.score],
         log_coeff |-> [k \in 1 .. Len(s.log_coeff) |-> base.log_coeff],
         precision |-> [k \in 1 .. Len(s.precision) |-> base.precision],
         mean |-> [k \in 1 .. Len(s.mean) |-> base.mean],
         temp |-> s.temp]

VSUpdateGroup(s, sh, groupid, group) ==
    LET base == ScorerInit(sh, group)
    IN  [s EXCEPT !.score[groupid] = base.score,
                  !.log_coeff[groupid] = base.log_coeff,
                  !.precision[groupid] = base.precision,
                  !.mean[groupid] = base.mean]

RECURSIVE VSUpdateFrom(_, _, _, _)
VSUpdateFrom(s, sh, gs, groupid) ==
    IF groupid > Len(gs) THEN s
    ELSE VSUpdateFrom(VSUpdateGroup(s, sh, groupid, gs[groupid]),
                      sh, gs, groupid + 1)

VSUpdateAll(s, sh, gs) == VSUpdateFrom(s, sh, gs, 1)

\* the row a group of the scorer holds
Row(s, k) ==
    [score |-> s.score[k], log_coeff |-> s.log_coeff[k],
     precision |-> s.precision[k], mean |-> s.mean[k]]

\* ------------------------------------------- MixtureSlave (mixture.hpp)
SlaveAddGroup(gs) == PackedAdd(gs, GroupInit)

SlaveRemoveGroup(gs, groupid) == PackedRemove(gs, groupid)

SlaveAddValue(gs, groupid, value) ==
    [gs EXCEPT ![groupid] = GroupAddValue(gs[groupid], value)]

SlaveRemoveValue(gs, groupid, value) ==
    [gs EXCEPT ![groupid] = GroupRemoveValue(gs[groupid], value)]

\* ------------------------------------------------------------ the ghosts
NoValues == [v \in PoolValues |-> 0]

BagAdd(b, v) == [b EXCEPT ![v] = @ + 1]

BagRemove(b, v) == [b EXCEPT ![v] = @ - 1]

BagUnion(a, b) == [v \in PoolValues |-> a[v] + b[v]]

RECURSIVE BagSize(_, _)
BagSize(b, S) ==
    IF S = {} THEN 0
    ELSE LET v == CHOOSE w \in S : TRUE IN b[v] + BagSize(b, S \ {v})

\* the group that adding the values of bag b one by one to an empty group
\* gives (smallest value first)
RECURSIVE Fold(_, _)
Fold(b, S) ==
    IF S = {} THEN GroupInit
    ELSE LET v == CHOOSE w \in S : \A u \in S : w >= u
             rest == Fold(b, S \ {v})
             addN[n \in 0 .. b[v]] ==
                 IF n = 0 THEN rest ELSE GroupAddValue(addN[n - 1], v)
         IN  addN[b[v]]

FoldBag(b) == Fold(b, PoolValues)

NoCall == [op |-> "none", id |-> 0]

Call(op, id) == [op |-> op, id |-> id]

NoNich ==
    /\ shared = SharedEXAMPLE
    /\ groups = <<>>
    /\ assigned = <<>>
    /\ stray = 0
    /\ dirty = {}
    /\ scorer = [score |-> <<>>, log_coeff |-> <<>>, precision |-> <<>>,
                 mean |-> <<>>, temp |-> <<>>]

NoDD ==
    /\ oob = FALSE
    /\ dgroups = <<>>
    /\ cached_data_scorer_ = <<>>
    /\ grid_in = <<>>
    /\ scores_out = <<>>
    /\ dscorer = <<>>
    /\ fresh = <<>>

RECURSIVE SumCounts(_, _)
SumCounts(gs, n) == IF n = 0 THEN 0 ELSE gs[n].count + SumCounts(gs, n - 1)

TotalCount(gs) == SumCounts(gs, Len(gs))

\* ------------------------------------ normal_inverse_chi_sq::Mixture
\* A Mixture is given its groups, then init is called before any other call.
InitMixture ==
    /\ dassigned = <<>>
    /\ scores_accum = <<>>
    /\ harness = "mixture"
    /\ status = "new"
    /\ last = NoCall
    /\ shared \in Shareds
    /\ \E n \in 0 .. 2 :
         \E bs \in [1 .. n -> {NoValues, BagAdd(NoValues, 1),
                               BagAdd(BagAdd(NoValues, 1), 3)}] :
            /\ assigned = bs
            /\ groups = [k \in 1 .. n |-> FoldBag(bs[k])]
    /\ stray = 0
    /\ dirty = {}
    /\ scorer = EmptyScorer
    /\ debug_level \in {1, 2}
    /\ NoDD

MixtureInit ==
    /\ harness = "mixture"
    /\ status \in {"new", "ready"}
    /\ status' = "ready"
    /\ last' = Call("init", 0)
    /\ scorer' = VSUpdateAll(VSResize(scorer, Len(groups)), shared, groups)
    /\ UNCHANGED <<harness, scores_accum, dassigned, debug_level, ddVars,
                   shared, groups, assigned,
                   stray, dirty>>

MixtureAddGroup ==
    /\ harness = "mixture"
    /\ status = "ready"
    /\ Len(groups) < MaxGroups
    /\ LET groupid == Len(groups) + 1
           gs == SlaveAddGroup(groups)
       IN  /\ groups' = gs
           /\ scorer' = VSUpdateGroup(VSAddGroup(scorer), shared,
                                      groupid, gs[groupid])
           /\ last' = Call("add_group", groupid)
    /\ assigned' = Append(assigned, NoValues)
    /\ UNCHANGED <<harness, scores_accum, dassigned, status, debug_level,
                   ddVars, shared, stray, dirty>>

MixtureRemoveGroup(groupid) ==
    /\ harness = "mixture"
    /\ status = "ready"
    /\ groupid \in 1 .. Len(groups)
    /\ groups' = SlaveRemoveGroup(groups, groupid)
    /\ scorer' = VSRemoveGroup(scorer, groupid)
    /\ last' = Call("remove_group", groupid)
    /\ assigned' = PackedRemove(assigned, groupid)
    /\ UNCHANGED <<harness, scores_accum, dassigned, status, debug_level,
                   ddVars, shared, stray, dirty>>

\* slip: the scorer row is not refreshed after the group changed
MixtureAddValueNoUpdate(groupid, value) ==
    /\ harness = "mixture"
    /\ status = "ready"
    /\ groupid \in 1 .. Len(groups)
    /\ TotalCount(groups) < MaxValues
    /\ groups' = SlaveAddValue(groups, groupid, value)
    /\ last' = Call("add_value", groupid)
    /\ assigned' = [assigned EXCEPT ![groupid] = BagAdd(@, value)]
    /\ UNCHANGED <<harness, scores_accum, dassigned, status, debug_level,
                   ddVars, shared, stray, dirty,
                   scorer>>

MixtureAddValue(groupid, value) ==
    /\ harness = "mixture"
    /\ status = "ready"
    /\ groupid \in 1 .. Len(groups)
    /\ TotalCount(groups) < MaxValues
    /\ LET gs == SlaveAddValue(groups, groupid, value)
       IN  /\ groups' = gs
           /\ scorer' = VSUpdateGroup(scorer, shared, groupid, gs[groupid])
    /\ last' = Call("add_value", groupid)
    /\ assigned' = [assigned EXCEPT ![groupid] = BagAdd(@, value)]
    /\ UNCHANGED <<harness, scores_accum, dassigned, status, debug_level,
                   ddVars, shared, stray, dirty>>

\* the caller removes a value it assigned; on an empty group the
\* DIST_ASSERT of Group::remove_value ends the process
MixtureRemoveValue(groupid, value) ==
    /\ harness = "mixture"
    /\ status = "ready"
    /\ groupid \in 1 .. Len(groups)
    /\ last' = Call("remove_value", groupid)
    /\ IF groups[groupid].count = 0
       THEN /\ status' = "aborted"
            /\ UNCHANGED <<groups, scorer, assigned>>
       ELSE /\ assigned[groupid][value] > 0
            /\ LET gs == SlaveRemoveValue(groups, groupid, value)
               IN  /\ groups' = gs
                   /\ scorer' = VSUpdateGroup(scorer, shared,
                                              groupid, gs[groupid])
            /\ assigned' = [assigned EXCEPT ![groupid] = BagRemove(@, value)]
            /\ UNCHANGED status
    /\ UNCHANGED <<harness, scores_accum, dassigned, debug_level, ddVars,
                   shared, stray, dirty>>

NextMixture ==
    \/ MixtureInit
    \/ MixtureAddGroup
    \/ \E groupid \in 1 .. MaxGroups : MixtureRemoveGroup(groupid)
    \/ \E groupid \in 1 .. MaxGroups, value \in MixValues :
          MixtureAddValue(groupid, value)
    \/ \E groupid \in 1 .. MaxGroups, value \in MixValues :
          MixtureRemoveValue(groupid, value)

SpecMixture == InitMixture /\ [][NextMixture]_vars

\* VectorizedScorer::score_value is declared in nich.hpp and defined
\* elsewhere: it adds the log-probability of value under group k to
\* scores_accum[k].  A buffer entry is held as the values whose scores were
\* added to it.
VSScoreValue(s, value, accum) ==
    [k \in 1 .. Len(accum) |->
        IF k <= Len(s.score) THEN Append(accum[k], value) ELSE accum[k]]

\* DIST_ASSERT_EQ(x, y): fatal unless x = y
AssertEqFails(x, y) == x # y

\* slip: the buffer length is not compared with the number of groups
MixtureScoreValueUnchecked(value, size) ==
    /\ harness = "mixture"
    /\ status = "ready"
    /\ last' = Call("score_value", 0)
    /\ scores_accum' = VSScoreValue(scorer, value, [k \in 1 .. size |-> <<>>])
    /\ UNCHANGED <<harness, status, dassigned, debug_level, ddVars, nichVars>>

\* Mixture::score_value(shared, value, scores_accum) on a zeroed buffer of
\* `size` entries; without the assertion (DIST_DEBUG_LEVEL < 2) the driver
\* passes a buffer as long as the groups
MixtureScoreValue(value, size) ==
    /\ harness = "mixture"
    /\ status = "ready"
    /\ debug_level >= 2 \/ size = Len(groups)
    /\ last' = Call("score_value", 0)
    /\ IF debug_level >= 2 /\ AssertEqFails(size, Len(groups))
       THEN /\ status' = "aborted"
            /\ scores_accum' = [k \in 1 .. size |-> <<>>]
       ELSE /\ scores_accum' =
                  VSScoreValue(scorer, value, [k \in 1 .. size |-> <<>>])
            /\ UNCHANGED status
    /\ UNCHANGED <<harness, dassigned, debug_level, ddVars, nichVars>>

\* the value the driver scores
ScoreValues == {1}

NextMixtureScore ==
    \/ NextMixture
    \/ \E value \in ScoreValues, size \in 0 .. MaxGroups :
          MixtureScoreValue(value, size)

SpecMixtureScore == InitMixture /\ [][NextMixtureScore]_vars

\* ------------------------- normal_inverse_chi_sq::Group, a pool of groups
\* `assigned[k]` is the bag of values group k holds while every removal
\* took a value that was there; a group that lost a value it did not hold
\* is in `dirty` and its bag is no longer kept.
InitGroup ==
    /\ dassigned = <<>>
    /\ scores_accum = <<>>
    /\ harness = "group"
    /\ status = "ready"
    /\ last = NoCall
    /\ shared = SharedEXAMPLE
    /\ groups = [k \in Pool |-> GroupInit]
    /\ assigned = [k \in Pool |-> NoValues]
    /\ stray = 0
    /\ dirty = {}
    /\ scorer = EmptyScorer
    /\ debug_level = 0
    /\ NoDD

GroupInitCall(k) ==
    /\ harness = "group"
    /\ status = "ready"
    /\ groups' = [groups EXCEPT ![k] = GroupInit]
    /\ assigned' = [assigned EXCEPT ![k] = NoValues]
    /\ dirty' = dirty \ {k}
    /\ last' = Call("init", k)
    /\ UNCHANGED <<harness, scores_accum, dassigned, status, debug_level,
                   ddVars, shared, stray, scorer>>

GroupAddValueCall(k, value) ==
    /\ harness = "group"
    /\ status = "ready"
    /\ TotalCount(groups) < PoolMaxTotal
    /\ groups' = [groups EXCEPT ![k] = GroupAddValue(@, value)]
    /\ assigned' = IF k \in dirty THEN assigned
                   ELSE [assigned EXCEPT ![k] = BagAdd(@, value)]
    /\ last' = Call("add_value", k)
    /\ UNCHANGED <<harness, scores_accum, dassigned, status, debug_level,
                   ddVars, shared, stray, dirty,
                   scorer>>

\* DIST_ASSERT(count > 0, "Can't remove empty group") ends the process
GroupRemoveValueCall(k, value) ==
    /\ harness = "group"
    /\ status = "ready"
    /\ last' = Call("remove_value", k)
    /\ IF groups[k].count = 0
       THEN /\ status' = "aborted"
            /\ UNCHANGED <<groups, assigned, stray, dirty>>
       ELSE /\ groups' = [groups EXCEPT ![k] = GroupRemoveValue(@, value)]
            /\ IF k \notin dirty /\ assigned[k][value] > 0
               THEN /\ assigned' = [assigned EXCEPT ![k] = BagRemove(@, value)]
                    /\ UNCHANGED <<stray, dirty>>
               ELSE /\ stray < MaxStray
                    /\ stray' = stray + 1
                    /\ dirty' = dirty \cup {k}
                    /\ assigned' = [assigned EXCEPT ![k] = NoValues]
            /\ UNCHANGED status
    /\ UNCHANGED <<harness, scores_accum, dassigned, debug_level, ddVars,
                   shared, scorer>>

GroupMergeCall(k, j) ==
    /\ harness = "group"
    /\ status = "ready"
    /\ k # j
    /\ TotalCount(groups) + groups[j].count <= PoolMaxTotal
    /\ groups' = [groups EXCEPT ![k] = GroupMerge(@, groups[j])]
    /\ IF k \in dirty \/ j \in dirty
       THEN /\ dirty' = dirty \cup {k}
            /\ assigned' = [assigned EXCEPT ![k] = NoValues]
       ELSE /\ assigned' = [assigned EXCEPT ![k] = BagUnion(@, assigned[j])]
            /\ UNCHANGED dirty
    /\ last' = Call("merge", k)
    /\ UNCHANGED <<harness, scores_accum, dassigned, status, debug_level,
                   ddVars, shared, stray, scorer>>

NextGroup ==
    \/ \E k \in Pool : GroupInitCall(k)
    \/ \E k \in Pool, value \in PoolValues : GroupAddValueCall(k, value)
    \/ \E k \in Pool, value \in PoolValues : GroupRemoveValueCall(k, value)
    \/ \E k \in Pool, j \in Pool : GroupMergeCall(k, j)

SpecGroup == InitGroup /\ [][NextGroup]_vars

\* the pool driven by init, add_value and remove_value alone
NextGroupValues ==
    \/ \E k \in Pool : GroupInitCall(k)
    \/ \E k \in Pool, value \in PoolValues : GroupAddValueCall(k, value)
    \/ \E k \in Pool, value \in PoolValues : GroupRemoveValueCall(k, value)

SpecGroupValues == InitGroup /\ [][NextGroupValues]_vars

\* =========================================== dirichlet_discrete (dd.hpp)
\* Shared<max_dim> with dim = max_dim, as Shared::EXAMPLE sets it
Categories == {0, 1}

max_dim == Cardinality(Categories)

DSharedEXAMPLE == [dim |-> max_dim, alphas |-> [v \in Categories |-> <<1, 2>>]]

DShareds ==
    {DSharedEXAMPLE,
     [dim |-> max_dim, alphas |-> [v \in Categories |->
                                      IF v = 0 THEN <<3, 2>> ELSE <<1, 2>>]],
     [dim |-> max_dim, alphas |-> [v \in Categories |->
                                      IF v = 0 THEN <<3, 2>> ELSE R(1)]]}

\* the values a caller may hand in: the categories, one below, one above
DValues == (-1) .. max_dim

\* A count_t (uint32_t) u is held as the integer congruent to u modulo 2^32
\* in -2^31 .. 2^31 - 1, so 0 - 1 = 2^32 - 1 is held as -1.
Wrapped(u) == u < 0

\* u <= w as unsigned numbers
ULe(u, w) ==
    IF Wrapped(u) = Wrapped(w) THEN u <= w ELSE Wrapped(w)

\* float(u), for a counter that did not wrap
FloatOf(u) == R(u)

RECURSIVE SumOver(_, _)
SumOver(f, S) ==
    IF S = {} THEN 0
    ELSE LET v == CHOOSE w \in S : TRUE IN f[v] + SumOver(f, S \ {v})

RECURSIVE RSumOver(_, _)
RSumOver(f, S) ==
    IF S = {} THEN R(0)
    ELSE LET v == CHOOSE w \in S : TRUE IN RAdd(f[v], RSumOver(f, S \ {v}))

\* ---------------------------------------------- dirichlet_discrete::Group
DGroupInit == [count_sum |-> 0, counts |-> [v \in Categories |-> 0]]

\* add_value past its DIST_ASSERT1, for a value inside the array
DGroupAddValue(g, value) ==
    [count_sum |-> g.count_sum + 1,
     counts |-> [g.counts EXCEPT ![value] = @ + 1]]

\* slip: count_sum is not decremented
DGroupRemoveValueKeepsSum(g, value) ==
    [count_sum |-> g.count_sum,
     counts |-> [g.counts EXCEPT ![value] = @ - 1]]

\* remove_value past its DIST_ASSERT1, for a value inside the array
DGroupRemoveValue(g, value) ==
    [count_sum |-> g.count_sum - 1,
     counts |-> [g.counts EXCEPT ![value] = @ - 1]]

DGroupMerge(g, source) ==
    [count_sum |-> g.count_sum,
     counts |-> [v \in Categories |-> g.counts[v] + source.counts[v]]]

\* DIST_ASSERT1(cond, ...) of common.hpp: checked when DIST_DEBUG_LEVEL >= 1
Assert1Fails(cond) == debug_level >= 1 /\ ~cond

\* counts[value] += d with value outside 0 .. max_dim-1 is undefined: the
\* write lands on whatever lies there.  With the members laid out in
\* declaration order counts[-1] is this group's count_sum and
\* counts[max_dim] is the next group's count_sum; otherwise it lands
\* outside the groups.  gs already holds the count_sum += d of the call.
StrayWrite(gs, k, value, d) ==
    {gs}
    \cup (IF value = -1
          THEN {[gs EXCEPT ![k].count_sum = @ + d]} ELSE {})
    \cup (IF value = max_dim /\ k < Len(gs)
          THEN {[gs EXCEPT ![k + 1].count_sum = @ + d]} ELSE {})

\* the observations the groups hold together, wrapped counters aside
RECURSIVE DTotal(_, _)
DTotal(gs, n) ==
    IF n = 0 THEN 0
    ELSE LET Pos(u) == IF u > 0 THEN u ELSE 0
             c == SumOver([v \in Categories |-> Pos(gs[n].counts[v])],
                          Categories)
         IN  (IF Pos(gs[n].count_sum) > c THEN Pos(gs[n].count_sum) ELSE c)
                + DTotal(gs, n - 1)

\* the bound on the groups a call may leave: at most MaxDTotal
\* observations, and no counter below 2^32 - 1
Bounded(gs) ==
    /\ DTotal(gs, Len(gs)) <= MaxDTotal
    /\ \A k \in 1 .. Len(gs) :
          /\ gs[k].count_sum >= -1
          /\ \A v \in Categories : gs[k].counts[v] >= -1

NoWrap(gs) ==
    \A k \in 1 .. Len(gs) :
        /\ ~Wrapped(gs[k].count_sum)
        /\ \A v \in Categories : ~Wrapped(gs[k].counts[v])

\* ------------------------------------- dirichlet_discrete::CachedDataScorer
\* A log-domain float is held as its exponential: a sum of logs is a
\* product, fast_lgamma(x) - fast_lgamma(y) is Gamma(x) / Gamma(y), which is
\* a rational number whenever x - y is an integer.  shared_part_ holds the
\* arguments of its fast_lgamma calls.
Back == max_dim

Slots == Categories \cup {Back}

RECURSIVE Rising(_, _)
Rising(x, n) ==
    IF n = 0 THEN R(1) ELSE RMul(RAdd(x, R(n - 1)), Rising(x, n - 1))

\* Gamma(x) / Gamma(y)
GammaRatio(x, y) ==
    LET d == RSub(x, y)
    IN  IF IsNaN(d) \/ d[2] # 1 THEN NaN
        ELSE IF d[1] >= 0 THEN Rising(y, d[1])
        ELSE RDiv(R(1), Rising(x, -d[1]))

RECURSIVE CachedInitScores(_, _, _, _, _)
CachedInitScores(sh, part, alpha_sum, gs, n) ==
    IF n = 0 THEN [i \in Slots |-> R(1)]
    ELSE LET acc == CachedInitScores(sh, part, alpha_sum, gs, n - 1)
             group == gs[n]
         IN  IF group.count_sum # 0
             THEN [i \in Slots |->
                     IF i = Back
                     THEN RMul(acc[i],
                               GammaRatio(part[Back],
                                          RAdd(alpha_sum,
                                               FloatOf(group.count_sum))))
                     ELSE RMul(acc[i],
                               GammaRatio(RAdd(sh.alphas[i],
                                               FloatOf(group.counts[i])),
                                          part[i]))]
             ELSE acc

CachedInit(sh, gs) ==
    LET alpha_sum == RSumOver(sh.alphas, Categories)
        part == [i \in Slots |-> IF i = Back THEN alpha_sum ELSE sh.alphas[i]]
    IN  [alpha_sum_ |-> alpha_sum,
         shared_part_ |-> part,
         scores_ |-> CachedInitScores(sh, part, alpha_sum, gs, Len(gs))]

RECURSIVE RProdOver(_, _)
RProdOver(f, S) ==
    IF S = {} THEN R(1)
    ELSE LET v == CHOOSE w \in S : TRUE IN RMul(f[v], RProdOver(f, S \ {v}))

\* vector_sum of the log-domain entries
CachedEval(c) == RProdOver(c.scores_, Slots)

RECURSIVE CachedUpdateScores(_, _, _, _, _, _)
CachedUpdateScores(value, new_alpha, part, alpha_sum, gs, n) ==
    IF n = 0 THEN [i \in {value, Back} |-> R(1)]
    ELSE LET acc == CachedUpdateScores(value, new_alpha, part, alpha_sum,
                                       gs, n - 1)
             group == gs[n]
         IN  [i \in {value, Back} |->
                 IF i = Back
                 THEN RMul(acc[i],
                           GammaRatio(part[Back],
                                      RAdd(alpha_sum,
                                           FloatOf(group.count_sum))))
                 ELSE RMul(acc[i],
                           GammaRatio(RAdd(new_alpha,
                                           FloatOf(group.counts[value])),
                                      part[value]))]

CachedUpdate(c, value, old_alpha, new_alpha, gs) ==
    LET alpha_sum == RAdd(c.alpha_sum_, RSub(new_alpha, old_alpha))
        part == [c.shared_part_ EXCEPT ![value] = new_alpha,
                                       ![Back] = alpha_sum]
        upd == CachedUpdateScores(value, new_alpha, part, alpha_sum,
                                  gs, Len(gs))
    IN  [alpha_sum_ |-> alpha_sum,
         shared_part_ |-> part,
         scores_ |-> [i \in Slots |->
                         IF i \in {value, Back} THEN upd[i]
                         ELSE c.scores_[i]]]

\* ----------------- dirichlet_discrete::VectorizedScorer, its data scores
\* score_data: the cache after the call, and the score returned
ScoreData(sh, gs) == CachedEval(CachedInit(sh, gs))

\* the inner loop of score_data_grid over value = from .. dim-1
RECURSIVE GridPatch(_, _, _, _, _)
GridPatch(c, old_alphas, new_alphas, gs, from) ==
    IF from >= max_dim THEN c
    ELSE GridPatch(IF new_alphas[from] # old_alphas[from]
                   THEN CachedUpdate(c, from, old_alphas[from],
                                     new_alphas[from], gs)
                   ELSE c,
                   old_alphas, new_alphas, gs, from + 1)

\* score_data_grid for the grid points 1 .. i: the cache, and scores_out
RECURSIVE ScoreDataGrid(_, _, _)
ScoreDataGrid(shareds, gs, i) ==
    IF i = 1
    THEN LET c == CachedInit(shareds[1], gs)
         IN  [cache |-> c, out |-> <<CachedEval(c)>>]
    ELSE LET prev == ScoreDataGrid(shareds, gs, i - 1)
             c == GridPatch(prev.cache, shareds[i - 1].alphas,
                            shareds[i].alphas, gs, 0)
         IN  [cache |-> c, out |-> Append(prev.out, CachedEval(c))]

Grids == UNION {[1 .. n -> DShareds] : n \in 0 .. MaxGrid}

\* ------------------------------------------- the categorical Group driver
\* "dgroup" drives two Groups with every value of DValues; "grid" and "dd"
\* drive a collection of Groups beside a VectorizedScorer, with values of
\* the declared dimension and without leaving a wrapped counter behind.
\* ghost: the observations assigned to a group, followed for the two groups
\* of "dgroup"; a group that lost an observation it did not hold, or took
\* a category outside 0 .. max_dim-1, is no longer followed
NoObs == [v \in Categories |-> 0]

Untracked == [v \in Categories |-> -1]

Observes(k, obs) ==
    dassigned' = IF harness = "dgroup" THEN [dassigned EXCEPT ![k] = obs]
                 ELSE dassigned

DDHarness == harness \in {"dgroup", "grid", "dd"}

GroupCall(op, k, value) ==
    IF harness = "dgroup" THEN [op |-> op, id |-> k, value |-> value]
    ELSE IF harness = "dd" THEN [op |-> op, id |-> k, n |-> last.n + 1]
    ELSE [op |-> op, id |-> 0]

Driven(value, gs) ==
    \/ harness = "dgroup"
    \/ value \in Categories /\ NoWrap(gs)

InitDGroup ==
    /\ dassigned = <<NoObs, NoObs>>
    /\ scores_accum = <<>>
    /\ harness = "dgroup"
    /\ status = "ready"
    /\ last = NoCall
    /\ debug_level \in {0, 1}
    /\ NoNich
    /\ oob = FALSE
    /\ dgroups = <<DGroupInit, DGroupInit>>
    /\ cached_data_scorer_ = <<>>
    /\ grid_in = <<>>
    /\ scores_out = <<>>
    /\ dscorer = <<>>
    /\ fresh = <<>>

InitGrid ==
    /\ dassigned = <<>>
    /\ scores_accum = <<>>
    /\ harness = "grid"
    /\ status = "ready"
    /\ last = NoCall
    /\ debug_level = 1
    /\ NoNich
    /\ oob = FALSE
    /\ dgroups = <<>>
    /\ cached_data_scorer_ = <<>>
    /\ grid_in = <<>>
    /\ scores_out = <<>>
    /\ dscorer = <<>>
    /\ fresh = <<>>

DDAddGroup ==
    /\ harness = "grid"
    /\ status = "ready"
    /\ last.op \notin {"score_data", "score_data_grid"}
    /\ Len(dgroups) < MaxDGroups
    /\ dgroups' = PackedAdd(dgroups, DGroupInit)
    /\ last' = Call("add_group", Len(dgroups) + 1)
    /\ UNCHANGED <<harness, scores_accum, dassigned, status, debug_level,
                   nichVars, oob,
                   cached_data_scorer_, grid_in, scores_out, dscorer, fresh>>

DDRemoveGroup(k) ==
    /\ harness = "grid"
    /\ status = "ready"
    /\ last.op \notin {"score_data", "score_data_grid"}
    /\ k \in 1 .. Len(dgroups)
    /\ dgroups' = PackedRemove(dgroups, k)
    /\ last' = Call("remove_group", k)
    /\ UNCHANGED <<harness, scores_accum, dassigned, status, debug_level,
                   nichVars, oob,
                   cached_data_scorer_, grid_in, scores_out, dscorer, fresh>>

DGroupInitCall(k) ==
    /\ DDHarness
    /\ status = "ready"
    /\ k \in 1 .. Len(dgroups)
    /\ dgroups' = [dgroups EXCEPT ![k] = DGroupInit]
    /\ last' = GroupCall("group_init", k, 0)
    /\ UNCHANGED <<harness, scores_accum, status, debug_level, nichVars, oob>>
    /\ Observes(k, NoObs)

DGroupAddValueCall(k, value) ==
    /\ DDHarness
    /\ status = "ready"
    /\ k \in 1 .. Len(dgroups)
    /\ last' = GroupCall("group_add_value", k, value)
    /\ IF Assert1Fails(value < max_dim)
       THEN /\ status' = "aborted"
            /\ UNCHANGED <<dgroups, oob>>
       ELSE /\ IF value \in Categories
               THEN /\ dgroups' = [dgroups EXCEPT
                                     ![k] = DGroupAddValue(@, value)]
                    /\ UNCHANGED oob
               ELSE /\ ~oob
                    /\ dgroups' \in
                         StrayWrite([dgroups EXCEPT ![k].count_sum = @ + 1],
                                    k, value, 1)
                    /\ oob' = TRUE
            /\ UNCHANGED status
    /\ Bounded(dgroups')
    /\ Driven(value, dgroups')
    /\ UNCHANGED <<harness, scores_accum, debug_level, nichVars>>
    /\ Observes(k, IF status' = "aborted" THEN dassigned[k]
                    ELSE IF value \in Categories /\ dassigned[k] # Untracked
                    THEN [dassigned[k] EXCEPT ![value] = @ + 1]
                    ELSE Untracked)

\* the run makes at most one access outside the array (a bound)
DGroupRemoveValueCall(k, value) ==
    /\ DDHarness
    /\ status = "ready"
    /\ k \in 1 .. Len(dgroups)
    /\ last' = GroupCall("group_remove_value", k, value)
    /\ IF Assert1Fails(value < max_dim)
       THEN /\ status' = "aborted"
            /\ UNCHANGED <<dgroups, oob>>
       ELSE /\ IF value \in Categories
               THEN /\ dgroups' = [dgroups EXCEPT
                                     ![k] = DGroupRemoveValue(@, value)]
                    /\ UNCHANGED oob
               ELSE /\ ~oob
                    /\ dgroups' \in
                         StrayWrite([dgroups EXCEPT ![k].count_sum = @ - 1],
                                    k, value, -1)
                    /\ oob' = TRUE
            /\ UNCHANGED status
    /\ Bounded(dgroups')
    /\ Driven(value, dgroups')
    /\ UNCHANGED <<harness, scores_accum, debug_level, nichVars>>
    /\ Observes(k, IF status' = "aborted" THEN dassigned[k]
                    ELSE IF value \in Categories /\ dassigned[k] # Untracked
                            /\ dassigned[k][value] > 0
                    THEN [dassigned[k] EXCEPT ![value] = @ - 1]
                    ELSE Untracked)

DGroupMergeCall(k, j) ==
    /\ DDHarness
    /\ status = "ready"
    /\ k \in 1 .. Len(dgroups)
    /\ j \in 1 .. Len(dgroups)
    /\ k # j
    /\ LET gs == [dgroups EXCEPT ![k] = DGroupMerge(@, dgroups[j])]
       IN  /\ Bounded(gs)
           /\ Driven(0, gs)
           /\ dgroups' = gs
    /\ last' = GroupCall("group_merge", k, j)
    /\ UNCHANGED <<harness, scores_accum, status, debug_level, nichVars, oob>>
    /\ Observes(k, IF dassigned[k] # Untracked /\ dassigned[j] # Untracked
                    THEN [v \in Categories |->
                             dassigned[k][v] + dassigned[j][v]]
                    ELSE Untracked)

\* VectorizedScorer::score_data_grid(shareds, slave, scores_out)
DDScoreDataGrid(shareds) ==
    /\ harness = "grid"
    /\ status = "ready"
    /\ NoWrap(dgroups)
    /\ IF Len(shareds) = 0
       THEN /\ scores_out' = <<>>
            /\ UNCHANGED cached_data_scorer_
       ELSE LET r == ScoreDataGrid(shareds, dgroups, Len(shareds))
            IN  /\ cached_data_scorer_' = r.cache
                /\ scores_out' = r.out
    /\ grid_in' = shareds
    /\ last' = Call("score_data_grid", 0)
    /\ UNCHANGED <<harness, scores_accum, dassigned, status, debug_level,
                   nichVars, oob, dgroups,
                   dscorer, fresh>>

\* VectorizedScorer::score_data(shared, slave)
DDScoreData(sh) ==
    /\ harness = "grid"
    /\ status = "ready"
    /\ NoWrap(dgroups)
    /\ cached_data_scorer_' = CachedInit(sh, dgroups)
    /\ scores_out' = <<CachedEval(CachedInit(sh, dgroups))>>
    /\ grid_in' = <<sh>>
    /\ last' = Call("score_data", 0)
    /\ UNCHANGED <<harness, scores_accum, dassigned, status, debug_level,
                   nichVars, oob, dgroups,
                   dscorer, fresh>>

\* a Group call leaves the scorer's cache and the caller's buffers alone;
\* the "grid" driver builds its groups first and scores them afterwards
GridKeeps ==
    /\ last.op \notin {"score_data", "score_data_grid"}
    /\ UNCHANGED <<cached_data_scorer_, grid_in, scores_out, dscorer, fresh>>

NextGrid ==
    \/ DDAddGroup
    \/ \E k \in 1 .. MaxDGroups : DDRemoveGroup(k)
    \/ \E k \in 1 .. MaxDGroups : DGroupInitCall(k) /\ GridKeeps
    \/ \E k \in 1 .. MaxDGroups, value \in DValues :
          DGroupAddValueCall(k, value) /\ GridKeeps
    \/ \E k \in 1 .. MaxDGroups, value \in DValues :
          DGroupRemoveValueCall(k, value) /\ GridKeeps
    \/ \E k \in 1 .. MaxDGroups, j \in 1 .. MaxDGroups :
          DGroupMergeCall(k, j) /\ GridKeeps
    \/ \E shareds \in Grids : DDScoreDataGrid(shareds)
    \/ \E sh \in DShareds : DDScoreData(sh)

SpecGrid == InitGrid /\ [][NextGrid]_vars

NextDGroup ==
    \/ \E k \in 1 .. 2 : DGroupInitCall(k) /\ GridKeeps
    \/ \E k \in 1 .. 2, value \in DValues :
          DGroupAddValueCall(k, value) /\ GridKeeps
    \/ \E k \in 1 .. 2, value \in DValues :
          DGroupRemoveValueCall(k, value) /\ GridKeeps
    \/ \E k \in 1 .. 2, j \in 1 .. 2 : DGroupMergeCall(k, j) /\ GridKeeps

SpecDGroup == InitDGroup /\ [][NextDGroup]_vars

\* the two groups driven by init, add_value and remove_value alone
NextDGroupValues ==
    \/ \E k \in 1 .. 2 : DGroupInitCall(k) /\ GridKeeps
    \/ \E k \in 1 .. 2, value \in DValues :
          DGroupAddValueCall(k, value) /\ GridKeeps
    \/ \E k \in 1 .. 2, value \in DValues :
          DGroupRemoveValueCall(k, value) /\ GridKeeps

SpecDGroupValues == InitDGroup /\ [][NextDGroupValues]_vars

\* the two groups driven with categories of the declared dimension, and
\* remove_value called only on a group whose count_sum is not 0
NextDGroupGuarded ==
    \/ \E k \in 1 .. 2 : DGroupInitCall(k) /\ GridKeeps
    \/ \E k \in 1 .. 2, value \in Categories :
          DGroupAddValueCall(k, value) /\ GridKeeps
    \/ \E k \in 1 .. 2, value \in Categories :
          /\ dgroups[k].count_sum # 0
          /\ DGroupRemoveValueCall(k, value)
          /\ GridKeeps
    \/ \E k \in 1 .. 2, j \in 1 .. 2 : DGroupMergeCall(k, j) /\ GridKeeps

SpecDGroupGuarded == InitDGroup /\ [][NextDGroupGuarded]_vars

\* --------------------------------------------- dirichlet_discrete::Scorer
\* the scalar path; eval returns fast_log(alphas[value] / alpha_sum), held
\* as the ratio
DScorerInit(sh, group) ==
    LET post == [v \in Categories |->
                    RAdd(sh.alphas[v], FloatOf(group.counts[v]))]
    IN  [alpha_sum |-> RSumOver(post, Categories), alphas |-> post]

DScorerEval(sc, value) == RDiv(sc.alphas[value], sc.alpha_sum)

DGroupScoreValue(sh, group, value) == DScorerEval(DScorerInit(sh, group), value)

\* ----------------------------------- dirichlet_discrete::VectorizedScorer
\* scores_[value][groupid] and scores_shift_[groupid] are logarithms, held
\* as their arguments; a stored 0 is held as 1.
One == R(1)

\* alpha_sum_ is not set by the constructor: whatever the memory held
Garbage == {R(0), <<7, 2>>}

VSShareds ==
    {DSharedEXAMPLE,
     [dim |-> max_dim, alphas |-> [v \in Categories |->
                                      IF v = 0 THEN <<3, 2>> ELSE <<1, 2>>]]}

DVSAddGroup(d) ==
    [alpha_sum_ |-> d.alpha_sum_,
     scores_ |-> [v \in Categories |-> PackedAdd(d.scores_[v], One)],
     scores_shift_ |-> PackedAdd(d.scores_shift_, One)]

DVSRemoveGroup(d, groupid) ==
    [alpha_sum_ |-> d.alpha_sum_,
     scores_ |-> [v \in Categories |-> PackedRemove(d.scores_[v], groupid)],
     scores_shift_ |-> PackedRemove(d.scores_shift_, groupid)]

\* slip: the shift entry is left as it was
DVSUpdateGroupValueNoShift(d, sh, groupid, group, value) ==
    [d EXCEPT
        !.scores_[value][groupid] =
            RAdd(sh.alphas[value], FloatOf(group.counts[value]))]

\* update_group_value past its DIST_ASSERT1
DVSUpdateGroupValue(d, sh, groupid, group, value) ==
    [d EXCEPT
        !.scores_[value][groupid] =
            RAdd(sh.alphas[value], FloatOf(group.counts[value])),
        !.scores_shift_[groupid] =
            RAdd(d.alpha_sum_, FloatOf(group.count_sum))]

RECURSIVE DVSUpdateGroupFrom(_, _, _, _, _)
DVSUpdateGroupFrom(d, sh, groupid, group, value) ==
    IF value >= sh.dim THEN d
    ELSE DVSUpdateGroupFrom(
             DVSUpdateGroupValue(d, sh, groupid, group, value),
             sh, groupid, group, value + 1)

DVSUpdateGroup(d, sh, groupid, group) ==
    DVSUpdateGroupFrom(d, sh, groupid, group, 0)

DVSUpdateAll(d, sh, gs) ==
    LET alpha_sum == RSumOver(sh.alphas, Categories)
    IN  [alpha_sum_ |-> alpha_sum,
         scores_ |-> [v \in Categories |->
                         [k \in 1 .. Len(d.scores_[v]) |->
                             IF k <= Len(gs)
                             THEN RAdd(sh.alphas[v],
                                       FloatOf(gs[k].counts[v]))
                             ELSE d.scores_[v][k]]],
         scores_shift_ |->
             [k \in 1 .. Len(d.scores_shift_) |->
                 IF k <= Len(gs)
                 THEN RAdd(alpha_sum, FloatOf(gs[k].count_sum))
                 ELSE d.scores_shift_[k]]]

\* vector_add_subtract(size, io, in1, in2): io[i] += in1[i] - in2[i]
VectorAddSubtract(size, io, in1, in2) ==
    [k \in 1 .. Len(io) |->
        IF k <= size THEN RMul(io[k], RDiv(in1[k], in2[k])) ELSE io[k]]

\* slip: the buffer entry is overwritten by the row's score
DVSScoreValueOverwrites(d, value, accum) ==
    [k \in 1 .. Len(accum) |-> RDiv(d.scores_[value][k], d.scores_shift_[k])]

\* score_value past its DIST_ASSERT1
DVSScoreValue(d, value, accum) ==
    VectorAddSubtract(Len(accum), accum, d.scores_[value], d.scores_shift_)

\* ----- the ghost: which shared a row was refreshed with, what changed since
NoShared == [dim |-> 0, alphas |-> <<>>]

\* `patched`: the row's last refresh was an update_group_value that brought
\* it up to date
Stale == [sh |-> NoShared, of |-> NoShared, changed |-> {}, patched |-> FALSE]

\* row entries that a change of the group leaves behind
Touch(f, S) == [f EXCEPT !.changed = @ \cup S]

\* a row is current for sh: refreshed with sh since every change of its
\* group, by a scorer whose alpha_sum_ update_all computed from sh
Current(f, sh) == f.sh = sh /\ f.of = sh /\ f.changed = {}

\* the driver makes at most MaxCalls calls
VSCall(op, id, n) == [op |-> op, id |-> id, n |-> n]

InitDD ==
    /\ dassigned = <<>>
    /\ scores_accum = <<>>
    /\ harness = "dd"
    /\ status = "ready"
    /\ last = VSCall("none", 0, 0)
    /\ debug_level = 1
    /\ NoNich
    /\ oob = FALSE
    /\ dgroups = <<>>
    /\ cached_data_scorer_ = <<>>
    /\ grid_in = <<>>
    /\ scores_out = <<>>
    /\ \E garbage \in Garbage :
          dscorer = [alpha_sum_ |-> garbage,
                     of |-> NoShared,
                     scores_ |-> [v \in Categories |-> <<>>],
                     scores_shift_ |-> <<>>]
    /\ fresh = <<>>

DDKeeps ==
    /\ last.n < MaxCalls
    /\ UNCHANGED <<cached_data_scorer_, grid_in, scores_out>>

\* the caller adds a group and the scorer's row for it
DDVSAddGroup ==
    /\ harness = "dd"
    /\ status = "ready"
    /\ Len(dgroups) < MaxRows
    /\ dgroups' = PackedAdd(dgroups, DGroupInit)
    /\ dscorer' = DVSAddGroup(dscorer) @@ [of |-> dscorer.of]
    /\ fresh' = Append(fresh, Stale)
    /\ last' = VSCall("add_group", Len(dgroups) + 1, last.n + 1)
    /\ DDKeeps
    /\ UNCHANGED <<harness, scores_accum, dassigned, status, debug_level,
                   nichVars, oob>>

DDVSRemoveGroup(k) ==
    /\ harness = "dd"
    /\ status = "ready"
    /\ k \in 1 .. Len(dgroups)
    /\ dgroups' = PackedRemove(dgroups, k)
    /\ dscorer' = DVSRemoveGroup(dscorer, k) @@ [of |-> dscorer.of]
    /\ fresh' = PackedRemove(fresh, k)
    /\ last' = VSCall("remove_group", k, last.n + 1)
    /\ DDKeeps
    /\ UNCHANGED <<harness, scores_accum, dassigned, status, debug_level,
                   nichVars, oob>>

DDVSUpdateGroup(sh, k) ==
    /\ harness = "dd"
    /\ status = "ready"
    /\ k \in 1 .. Len(dgroups)
    /\ dscorer' = DVSUpdateGroup(dscorer, sh, k, dgroups[k])
    /\ fresh' = [fresh EXCEPT
                    ![k] = [sh |-> sh, of |-> dscorer.of, changed |-> {},
                            patched |-> FALSE]]
    /\ last' = VSCall("update_group", k, last.n + 1)
    /\ DDKeeps
    /\ UNCHANGED <<harness, scores_accum, dassigned, status, debug_level,
                   nichVars, oob, dgroups>>

DDVSUpdateGroupValue(sh, k, value) ==
    /\ harness = "dd"
    /\ status = "ready"
    /\ k \in 1 .. Len(dgroups)
    /\ dscorer' = DVSUpdateGroupValue(dscorer, sh, k, dgroups[k], value)
    /\ fresh' = [fresh EXCEPT
                    ![k] = IF fresh[k].sh = sh /\ fresh[k].of = dscorer.of
                           THEN [@ EXCEPT
                                    !.changed = @ \ {value, Back},
                                    !.patched = fresh[k].changed # {}
                                        /\ fresh[k].changed
                                               \subseteq {value, Back}]
                           ELSE Stale]
    /\ last' = VSCall("update_group_value", k, last.n + 1)
    /\ DDKeeps
    /\ UNCHANGED <<harness, scores_accum, dassigned, status, debug_level,
                   nichVars, oob, dgroups>>

DDVSUpdateAll(sh) ==
    /\ harness = "dd"
    /\ status = "ready"
    /\ dscorer' = DVSUpdateAll(dscorer, sh, dgroups) @@ [of |-> sh]
    /\ fresh' = [k \in 1 .. Len(dgroups) |->
                    [sh |-> sh, of |-> sh, changed |-> {}, patched |-> FALSE]]
    /\ last' = VSCall("update_all", 0, last.n + 1)
    /\ DDKeeps
    /\ UNCHANGED <<harness, scores_accum, dassigned, status, debug_level,
                   nichVars, oob, dgroups>>

\* the caller takes a zeroed buffer with one entry per group
DDNewBuffer ==
    /\ harness = "dd"
    /\ status = "ready"
    /\ Len(dgroups) > 0
    /\ scores_accum' = [k \in 1 .. Len(dgroups) |-> One]
    /\ scores_accum' # scores_accum
    /\ last' = VSCall("new_buffer", 0, last.n)
    /\ UNCHANGED <<harness, status, debug_level, nichVars, ddVars, dassigned>>

\* VectorizedScorer::score_value(shared, value, scores_accum), on a buffer
\* as long as the rows
DDVSScoreValue(value) ==
    /\ harness = "dd"
    /\ status = "ready"
    /\ Len(scores_accum) > 0
    /\ Len(scores_accum) = Len(dscorer.scores_shift_)
    /\ last.n < MaxCalls
    /\ last' = VSCall("score_value", value, last.n + 1)
    /\ IF Assert1Fails(value < max_dim)
       THEN /\ status' = "aborted"
            /\ UNCHANGED scores_accum
       ELSE /\ scores_accum' = DVSScoreValue(dscorer, value, scores_accum)
            /\ UNCHANGED status
    /\ UNCHANGED <<harness, debug_level, nichVars, ddVars, dassigned>>

\* what a Group call leaves of the rows
DDTouches(S) ==
    /\ harness = "dd"
    /\ last'.op # "none"
    /\ fresh' = [k \in 1 .. Len(fresh) |->
                    IF dgroups'[k] # dgroups[k] THEN Touch(fresh[k], S)
                    ELSE fresh[k]]
    /\ UNCHANGED dscorer
    /\ DDKeeps

\* the calls that change groups and rows
NextDDRows ==
    \/ DDVSAddGroup
    \/ \E k \in 1 .. MaxRows : DDVSRemoveGroup(k)
    \/ \E k \in 1 .. MaxRows :
          DGroupInitCall(k) /\ DDTouches(Slots)
    \/ \E k \in 1 .. MaxRows, value \in Categories :
          DGroupAddValueCall(k, value) /\ DDTouches({value, Back})
    \/ \E k \in 1 .. MaxRows, value \in Categories :
          DGroupRemoveValueCall(k, value) /\ DDTouches({value, Back})
    \/ \E k \in 1 .. MaxRows, j \in 1 .. MaxRows :
          DGroupMergeCall(k, j) /\ DDTouches(Categories)
    \/ \E sh \in VSShareds, k \in 1 .. MaxRows : DDVSUpdateGroup(sh, k)
    \/ \E sh \in VSShareds, k \in 1 .. MaxRows, value \in Categories :
          DDVSUpdateGroupValue(sh, k, value)
    \/ \E sh \in VSShareds : DDVSUpdateAll(sh)

SpecDDRows == InitDD /\ [][NextDDRows]_vars

NextDD ==
    \/ NextDDRows
    \/ DDNewBuffer
    \/ \E value \in 0 .. max_dim : DDVSScoreValue(value)

SpecDD == InitDD /\ [][NextDD]_vars

\* a driver that fills groups, refreshes rows and scores
NextDDScore ==
    \/ DDVSAddGroup
    \/ \E k \in 1 .. MaxRows, value \in Categories :
          DGroupAddValueCall(k, value) /\ DDTouches({value, Back})
    \/ \E sh \in VSShareds, k \in 1 .. MaxRows : DDVSUpdateGroup(sh, k)
    \/ \E sh \in VSShareds : DDVSUpdateAll(sh)
    \/ DDNewBuffer
    \/ \E value \in 0 .. max_dim : DDVSScoreValue(value)

SpecDDScore == InitDD /\ [][NextDDScore]_vars

\* ======================================================== the claims

ScorerLengths ==
    {Len(scorer.score), Len(scorer.log_coeff), Len(scorer.precision),
     Len(scorer.mean), Len(scorer.temp)}

\* C1: once Mixture.init has run, every parallel array of the
\* VectorizedScorer is as long as the Group collection; add_group grows
\* both by exactly one, remove_group shrinks both by exactly one, and
\* init, add_value and remove_value change neither length.
C1_LengthsStep ==
    /\ status' # "new" => ScorerLengths' = {Len(groups')}
    /\ last'.op = "add_group" => Len(groups') = Len(groups) + 1
    /\ last'.op = "remove_group" => Len(groups') = Len(groups) - 1
    /\ last'.op \in {"init", "add_value", "remove_value"}
          => Len(groups') = Len(groups)

C1_Lengths == [][C1_LengthsStep]_vars

C1_Witness ==
    /\ harness = "mixture"
    /\ status = "ready"
    /\ last.op = "remove_group"
    /\ Len(groups) = 2
    /\ ScorerLengths = {2}
    /\ \E k \in 1 .. 2 : groups[k].count > 0

\* C2: after every completed Mixture call, row k of the VectorizedScorer
\* (score, log_coeff, precision, mean) is what Scorer.init(shared,
\* groups[k]) gives for the current statistics of groups[k], for every k.
C2_RowsFresh ==
    (harness = "mixture" /\ status # "new") =>
        \A k \in 1 .. Len(groups) :
            /\ k <= Len(scorer.score)
            /\ k <= Len(scorer.log_coeff)
            /\ k <= Len(scorer.precision)
            /\ k <= Len(scorer.mean)
            /\ Row(scorer, k) = ScorerInit(shared, groups[k])

C2_Witness ==
    /\ harness = "mixture"
    /\ status = "ready"
    /\ last.op = "add_value"
    /\ Len(groups) >= 2
    /\ \E k \in 1 .. Len(groups) :
          /\ groups[k].count = 2
          /\ RPos(groups[k].count_times_variance)
          /\ Row(scorer, k) = ScorerInit(shared, groups[k])
          /\ Row(scorer, k) # ScorerInit(shared, GroupInit)

\* C4: for any Group g reachable through init, add_value, remove_value and
\* merge, and any value x, g.add_value(x) followed by g.remove_value(x)
\* gives back g's count, mean and count_times_variance.
C4_AddRemoveInverse ==
    harness = "group" =>
        \A k \in Pool, x \in PoolValues :
            GroupRemoveValue(GroupAddValue(groups[k], x), x) = groups[k]

\* C10: remove_group(id) on n rows leaves n-1 rows; every row other than
\* id keeps its index and contents, row id (when it is not the last) holds
\* what was the last row; the same holds of every parallel array and of
\* the Group collection.
SwapRemoved(old, new, id) ==
    /\ Len(new) = Len(old) - 1
    /\ \A j \in 1 .. Len(new) :
          new[j] = IF j = id THEN old[Len(old)] ELSE old[j]

C10_RemoveStep ==
    (harness = "mixture" /\ last'.op = "remove_group") =>
        LET id == last'.id
        IN  /\ SwapRemoved(groups, groups', id)
            /\ SwapRemoved(scorer.score, scorer'.score, id)
            /\ SwapRemoved(scorer.log_coeff, scorer'.log_coeff, id)
            /\ SwapRemoved(scorer.precision, scorer'.precision, id)
            /\ SwapRemoved(scorer.mean, scorer'.mean, id)
            /\ SwapRemoved(scorer.temp, scorer'.temp, id)

C10_RemoveStepDD ==
    (harness = "dd" /\ last'.op = "remove_group") =>
        LET id == last'.id
        IN  /\ SwapRemoved(dgroups, dgroups', id)
            /\ SwapRemoved(dscorer.scores_shift_, dscorer'.scores_shift_, id)
            /\ \A v \in Categories :
                  SwapRemoved(dscorer.scores_[v], dscorer'.scores_[v], id)

C10_RemoveGroup == [][C10_RemoveStep /\ C10_RemoveStepDD]_vars

\* three groups with different rows, the first removed: the last took its
\* place and the middle one stayed
C10_Witness ==
    /\ harness = "mixture"
    /\ last.op = "remove_group"
    /\ last.id = 1
    /\ Len(groups) = 2
    /\ groups[1].count = 2
    /\ groups[2].count = 1
    /\ Row(scorer, 1) = ScorerInit(shared, groups[1])
    /\ Row(scorer, 2) = ScorerInit(shared, groups[2])

\* ------------------------------------------------------- categorical Group
\* the group that adding the observations of bag b (category -> number)
\* one by one to an empty group gives
RECURSIVE DFold(_, _)
DFold(b, S) ==
    IF S = {} THEN DGroupInit
    ELSE LET v == CHOOSE w \in S : \A u \in S : w >= u
             rest == DFold(b, S \ {v})
             addN[n \in 0 .. b[v]] ==
                 IF n = 0 THEN rest ELSE DGroupAddValue(addN[n - 1], v)
         IN  addN[b[v]]

\* a group that is what adding its own observations to an empty group gives
Built(g) ==
    /\ \A v \in Categories : g.counts[v] >= 0
    /\ g = DFold(g.counts, Categories)

\* C3: in every state reached from init by add_value, remove_value and
\* merge (with values of the declared dimension), the sum of counts[0 ..
\* dim-1] is count_sum.
C3_SumIsCountSum ==
    (harness = "dgroup" /\ ~oob) =>
        \A k \in 1 .. Len(dgroups) :
            SumOver(dgroups[k].counts, Categories) = dgroups[k].count_sum

\* C5: merging groups that were each built from raw observations gives
\* the statistics of one group holding all those observations
\* (categorical model: count_sum and every counts[v]).
C5_MergeStep ==
    (harness = "dgroup" /\ last'.op = "group_merge"
        /\ Built(dgroups[last'.id]) /\ Built(dgroups[last'.value]))
    => dgroups'[last'.id] =
          DFold([v \in Categories |->
                    dgroups[last'.id].counts[v]
                        + dgroups[last'.value].counts[v]],
                Categories)

C5_MergeLaw == [][C5_MergeStep]_vars

\* C7: score_data_grid writes to scores_out[i] what score_data gives for
\* shareds[i] from a freshly initialised CachedDataScorer, for every i, and
\* leaves the cache with the terms a fresh init for the last grid point has.
C7_GridIsFresh ==
    (harness = "grid" /\ last.op = "score_data_grid") =>
        /\ Len(scores_out) = Len(grid_in)
        /\ \A i \in 1 .. Len(grid_in) :
              scores_out[i] = ScoreData(grid_in[i], dgroups)
        /\ Len(grid_in) > 0 =>
              cached_data_scorer_.scores_ =
                  CachedInit(grid_in[Len(grid_in)], dgroups).scores_

\* C8: in both models Group.remove_value on a group whose count is 0 is a
\* fatal assertion failure: the call does not complete and leaves no Group
\* with changed statistics.
C8_RemoveEmptyStep ==
    /\ (harness = "group" /\ last'.op = "remove_value"
            /\ groups[last'.id].count = 0)
       => (status' = "aborted" /\ groups' = groups)
    /\ (harness = "dgroup" /\ last'.op = "group_remove_value"
            /\ dgroups[last'.id].count_sum = 0)
       => (status' = "aborted" /\ dgroups' = dgroups)

C8_RemoveEmptyAsserts == [][C8_RemoveEmptyStep]_vars

\* C9: with the assertions of the build active, categorical add_value and
\* remove_value with a category outside 0 .. dim-1 (at or above dim, or
\* negative) fail an assertion, change neither counts nor count_sum, and
\* touch no slot outside the array.
C9_OutOfRangeStep ==
    (harness = "dgroup" /\ debug_level >= 1
        /\ last'.op \in {"group_add_value", "group_remove_value"}
        /\ last'.value \notin Categories)
    => (status' = "aborted" /\ dgroups' = dgroups /\ ~oob')

C9_OutOfRangeAsserts == [][C9_OutOfRangeStep]_vars

\* --------------------------------------------- categorical VectorizedScorer
\* C6: for every row k refreshed by update_all or update_group with shared
\* sh since the last change of group k, and every category x, what
\* VectorizedScorer.score_value adds to scores_accum[k] is what the scalar
\* Group.score_value(sh, x) of group k returns.
C6_ScoreValueAgrees ==
    harness = "dd" =>
        \A sh \in VSShareds, k \in 1 .. Len(dgroups) :
            Current(fresh[k], sh) =>
                \A x \in Categories :
                    DVSScoreValue(dscorer, x,
                                  [j \in 1 .. Len(dgroups) |-> One])[k]
                        = DGroupScoreValue(sh, dgroups[k], x)

\* the scorers' drivers together
SpecScorers ==
    (InitMixture \/ InitDD) /\ [][NextMixture \/ NextDDRows]_vars

\* C11: categorical score_value accumulates: every buffer entry after the
\* call is its value before the call plus scores[value][k] - shift[k] (as
\* arguments of the logarithm: times scores / shift), and the groups, the
\* scorer rows and alpha_sum_ are unchanged.
C11_ScoreStep ==
    (harness = "dd" /\ last'.op = "score_value" /\ status' = "ready") =>
        /\ Len(scores_accum') = Len(scores_accum)
        /\ \A k \in 1 .. Len(scores_accum) :
              scores_accum'[k] =
                  RMul(scores_accum[k],
                       RDiv(dscorer.scores_[last'.id][k],
                            dscorer.scores_shift_[k]))
        /\ dgroups' = dgroups
        /\ dscorer' = dscorer

C11_ScoreValueAccumulates == [][C11_ScoreStep]_vars

\* a second call on the same buffer: an entry holds more than the last
\* call's contribution
C11_Witness ==
    /\ harness = "dd"
    /\ status = "ready"
    /\ last.op = "score_value"
    /\ \E k \in 1 .. Len(scores_accum) :
          /\ ~IsNaN(scores_accum[k])
          /\ RPos(dscorer.scores_shift_[k])
          /\ scores_accum[k] #
                 RDiv(dscorer.scores_[last.id][k], dscorer.scores_shift_[k])

\* ------------------------------------------------------ scalar-real Group
\* the statistics of a multiset of values, computed from the multiset
RECURSIVE BagSum(_, _)
BagSum(b, S) ==
    IF S = {} THEN 0
    ELSE LET v == CHOOSE w \in S : TRUE IN v * b[v] + BagSum(b, S \ {v})

BagMean(b) ==
    IF BagSize(b, PoolValues) = 0 THEN R(0)
    ELSE RDiv(R(BagSum(b, PoolValues)), R(BagSize(b, PoolValues)))

RECURSIVE BagSquares(_, _)
BagSquares(b, S) ==
    IF S = {} THEN R(0)
    ELSE LET v == CHOOSE w \in S : TRUE
         IN  RAdd(RMul(R(b[v]), sqr(RSub(R(v), BagMean(b)))),
                  BagSquares(b, S \ {v}))

\* C12: after any sequence of add_value and remove_value calls from init
\* that removes only values present, the Group holds the size, the
\* arithmetic mean (0 when empty) and the sum of squared deviations of the
\* multiset of assigned values, whatever the order of the calls.
C12_OrderIndependent ==
    harness = "group" =>
        \A k \in Pool :
            k \notin dirty =>
                groups[k] =
                    [count |-> BagSize(assigned[k], PoolValues),
                     mean |-> BagMean(assigned[k]),
                     count_times_variance |->
                         BagSquares(assigned[k], PoolValues)]

\* 1, 2 and 3 were added to one group: count 3, mean 2, count_times_variance 2
C12_Witness ==
    /\ harness = "group"
    /\ \E k \in Pool :
          /\ k \notin dirty
          /\ assigned[k] = [v \in PoolValues |-> 1]
          /\ groups[k] = [count |-> 3, mean |-> R(2),
                          count_times_variance |-> R(2)]

\* C13: after any sequence of add_value and remove_value calls from init
\* that removes only categories present, counts[v] is the number of
\* assigned observations equal to v, for every v, and count_sum is their
\* total number (the categories passed being inside 0 .. dim-1).
C13_CountsAssigned ==
    (harness = "dgroup" /\ ~oob) =>
        \A k \in 1 .. Len(dgroups) :
            dassigned[k] # Untracked =>
                /\ dgroups[k].counts = dassigned[k]
                /\ dgroups[k].count_sum = SumOver(dassigned[k], Categories)

\* 0, 0 and 1 were added and 1 removed: counts [2, 0], count_sum 2
C13_Witness ==
    /\ harness = "dgroup"
    /\ status = "ready"
    /\ last.op = "group_remove_value"
    /\ last.value = 1
    /\ dassigned[last.id] = [v \in Categories |-> IF v = 0 THEN 2 ELSE 0]
    /\ dgroups[last.id] = [count_sum |-> 2, counts |-> dassigned[last.id]]

\* --------------------------------------------------- scalar-real Mixture
\* C14: with DIST_DEBUG_LEVEL >= 2, Mixture.score_value on a buffer whose
\* length is not the number of groups fails an assertion with no entry of
\* the buffer written; on a buffer of the right length no assertion fires.
C14_BufferStep ==
    (harness = "mixture" /\ last'.op = "score_value" /\ debug_level >= 2) =>
        IF Len(scores_accum') # Len(groups)
        THEN /\ status' = "aborted"
             /\ \A k \in 1 .. Len(scores_accum') : scores_accum'[k] = <<>>
        ELSE /\ status' = "ready"
             /\ \A k \in 1 .. Len(scores_accum') : scores_accum'[k] # <<>>

C14_BufferLength == [][C14_BufferStep]_vars

\* two groups, a buffer of one entry
C14_Witness ==
    /\ harness = "mixture"
    /\ debug_level = 2
    /\ last.op = "score_value"
    /\ status = "aborted"
    /\ Len(groups) = 2
    /\ scores_accum = << <<>> >>

\* ------------------------------------------------------ scalar-real Group
\* a Group whose statistics are numbers
WellDefined(g) ==
    /\ g.count >= 0
    /\ ~IsNaN(g.mean)
    /\ ~IsNaN(g.count_times_variance)

\* Group::score_value of a well-defined group divides by nothing that is 0
ScoresDefined(sh, g) ==
    LET sc == ScorerInit(sh, g)
    IN  /\ ~IsNaN(sc.precision)
        /\ ~IsNaN(sc.mean)
        /\ ~IsNaN(sc.log_coeff)
        /\ RPos(sc.precision)

\* C15: init, add_value and merge (an empty source into an empty group
\* included) complete on every well-defined Group, empty or not, without a
\* failed assertion or a division by zero, and leave a well-defined Group
\* that score_value can score (no value having been removed from a group
\* that did not hold it); merging two empty groups yields the empty
\* state (count 0, mean 0, count_times_variance 0).
C15_ValidStep ==
    (/\ harness = "group"
     /\ last'.op \in {"init", "add_value", "merge"}
     /\ dirty = {}
     /\ \A j \in Pool : WellDefined(groups[j]))
    => /\ status' = "ready"
       /\ WellDefined(groups'[last'.id])
       /\ ScoresDefined(shared, groups'[last'.id])
       /\ (last'.op = "merge" /\ \A j \in Pool : groups[j].count = 0)
             => groups'[last'.id] = GroupInit

C15_ValidTransitions == [][C15_ValidStep]_vars

\* C16: in every state reached from init by add_value, remove_value (on a
\* non-empty group) and merge, a group with count <= 1 has
\* count_times_variance 0 and a group with count 0 has mean 0, so that an
\* emptied group is field for field a freshly initialised one.
C16_CanonicalSmall ==
    harness = "group" =>
        \A k \in Pool :
            /\ groups[k].count <= 1 =>
                  groups[k].count_times_variance = R(0)
            /\ groups[k].count = 0 => groups[k] = GroupInit

\* --------------------------------------------- categorical VectorizedScorer
\* C17: update_group(shared, id, group) recomputes row id from its
\* arguments alone: every entry alphas[v] + counts[v] and the shift entry
\* (sum of alphas) + count_sum, whatever calls the scorer saw before.
C17_UpdateGroupStep ==
    (harness = "dd" /\ last'.op = "update_group") =>
        LET id == last'.id
            sh == fresh'[id].sh
            group == dgroups[id]
        IN  /\ \A v \in Categories :
                  dscorer'.scores_[v][id] =
                      RAdd(sh.alphas[v], FloatOf(group.counts[v]))
            /\ dscorer'.scores_shift_[id] =
                  RAdd(RSumOver(sh.alphas, Categories),
                       FloatOf(group.count_sum))

C17_UpdateGroupFromScratch == [][C17_UpdateGroupStep]_vars

\* --------------------------------------------------- scalar-real Mixture
\* C18: Mixture.add_value(shared, id, x) and Mixture.remove_value(shared,
\* id, x) change only Group id and scorer row id: the number of groups,
\* every other Group and every other scorer row are as before.
C18_FrameStep ==
    (harness = "mixture" /\ last'.op \in {"add_value", "remove_value"}) =>
        /\ Len(groups') = Len(groups)
        /\ ScorerLengths' = ScorerLengths
        /\ scorer'.temp = scorer.temp
        /\ shared' = shared
        /\ \A j \in 1 .. Len(groups) :
              j # last'.id =>
                  /\ groups'[j] = groups[j]
                  /\ Row(scorer', j) = Row(scorer, j)

C18_ValueFrame == [][C18_FrameStep]_vars

\* a value went to one of two groups, the other holding a value already
C18_Witness ==
    /\ harness = "mixture"
    /\ status = "ready"
    /\ last.op = "add_value"
    /\ Len(groups) = 2
    /\ \A k \in 1 .. 2 : groups[k].count > 0
    /\ Row(scorer, 1) # Row(scorer, 2)

\* ------------------------------------------------------- hyperparameters
\* C19: conditioning keeps the hyperparameters positive.  For every prior
\* (kappa, sigmasq, nu > 0) and every Group reached from init by add_value,
\* remove_value of values present and merge, plus_group returns kappa > 0,
\* nu > 0 and sigmasq > 0, count_times_variance being >= 0; in the
\* categorical model every alphas[v] + counts[v] is > 0.
C19_NichPositive ==
    harness = "group" =>
        \A k \in Pool, sh \in Shareds :
            k \notin dirty =>
                LET post == plus_group(sh, groups[k])
                IN  /\ RNonNeg(groups[k].count_times_variance)
                    /\ RPos(post.kappa)
                    /\ RPos(post.nu)
                    /\ RPos(post.sigmasq)

C19_DDPositive ==
    (harness = "dgroup" /\ ~oob) =>
        \A k \in 1 .. Len(dgroups), sh \in DShareds :
            dassigned[k] # Untracked =>
                \A v \in Categories :
                    RPos(DScorerInit(sh, dgroups[k]).alphas[v])

C19_Positivity == C19_NichPositive /\ C19_DDPositive

\* --------------------------------------------- categorical VectorizedScorer
\* C20: when row id was a full update_group of the group before
\* add_value(v) or remove_value(v) changed it, update_group_value(shared,
\* id, group, v) alone leaves row id what a full update_group(shared, id,
\* group) gives: every entry alphas[u] + counts[u], the shift entry
\* alpha_sum_ + count_sum.
C20_PartialStep ==
    (/\ harness = "dd"
     /\ last'.op = "update_group_value"
     /\ fresh[last'.id].sh # NoShared
     /\ fresh[last'.id].changed # {}
     /\ fresh'[last'.id].sh = fresh[last'.id].sh
     /\ fresh'[last'.id].changed = {})
    => LET id == last'.id
           sh == fresh[id].sh
           group == dgroups[id]
       IN  /\ dscorer' = DVSUpdateGroup(dscorer, sh, id, group)
           /\ \A u \in Categories :
                 dscorer'.scores_[u][id] =
                     RAdd(sh.alphas[u], FloatOf(group.counts[u]))
           /\ dscorer'.scores_shift_[id] =
                 RAdd(dscorer.alpha_sum_, FloatOf(group.count_sum))

C20_PartialRefresh == [][C20_PartialStep]_vars

\* a row refreshed in full, an observation added to its group, the row
\* refreshed for that category alone
C20_Witness ==
    /\ harness = "dd"
    /\ status = "ready"
    /\ last.op = "update_group_value"
    /\ fresh[last.id].sh # NoShared
    /\ fresh[last.id].changed = {}
    /\ fresh[last.id].patched
    /\ dgroups[last.id].count_sum = 1
    /\ dscorer.scores_[0][last.id] # dscorer.scores_[1][last.id]
    /\ dscorer.scores_shift_[last.id] =
           RAdd(dscorer.alpha_sum_, R(1))

\* ------------------------------------------------------- categorical Group
\* C21: in every state reached from init by add_value, merge and
\* remove_value calls made only while count_sum > 0, every counts[v] is at
\* most count_sum as 32-bit unsigned numbers, and no counts[v] has wrapped
\* below zero to 2^32 - 1.
C21_CountsBounded ==
    harness = "dgroup" =>
        \A k \in 1 .. Len(dgroups), v \in Categories :
            /\ ULe(dgroups[k].counts[v], dgroups[k].count_sum)
            /\ ~Wrapped(dgroups[k].counts[v])

====================================================================
